---------------------------- MODULE Spec2Model ----------------------------
(***************************************************************************)
(* Model of the tour dashboard's AI-assisted structured-data editor:       *)
(* callOpenRouter (request, fence stripping, JSON.parse), the              *)
(* AIAssistedEditor component (preview/raw modes, raw text buffer, inline  *)
(* error, prompt, processing flag) and the TourEditor form state that      *)
(* owns the six JSON fields.                                               *)
(*                                                                         *)
(* Text is a sequence of one-character strings, so that serialization,     *)
(* fence stripping and parsing are computed character by character.        *)
(***************************************************************************)
EXTENDS Integers, Sequences, FiniteSets, TLC

(***************************************************************************)
(* JSON values (the "Document" of one field).  A value is a tagged record. *)
(* JUndef stands for JavaScript's undefined and JErr for an Error object:  *)
(* neither is a JSON value.                                                *)
(***************************************************************************)
JNull == [t |-> "null"]
JBool(b) == [t |-> "bool", v |-> b]
JNum(n) == [t |-> "num", v |-> n]
JStr(s) == [t |-> "str", v |-> s]
JArr(a) == [t |-> "arr", v |-> a]
JObj(o) == [t |-> "obj", v |-> o]
JUndef == [t |-> "undefined"]
JErr(m) == [t |-> "error", v |-> m]

Member(k, d) == [k |-> k, v |-> d]

EmptyObj == JObj(<<>>)
EmptyArr == JArr(<<>>)

\* typeof x === 'object' && x !== null
IsObjectLike(d) == d.t \in {"arr", "obj"}

\* JavaScript truthiness, as used by the || operator
Falsy(d) ==
    \/ d.t \in {"null", "undefined"}
    \/ d.t = "bool" /\ d.v = FALSE
    \/ d.t = "num" /\ d.v = 0
    \/ d.t = "str" /\ d.v = <<>>

\* a || b
Or(a, b) == IF Falsy(a) THEN b ELSE a

RECURSIVE IsJSON(_)
\* d is a value of the JSON data model: null, boolean, number, string,
\* array of JSON values, or object whose members are JSON values.
IsJSON(d) ==
    CASE d.t \in {"null", "bool", "num", "str"} -> TRUE
      [] d.t = "arr" -> \A i \in 1..Len(d.v) : IsJSON(d.v[i])
      [] d.t = "obj" -> \A i \in 1..Len(d.v) : IsJSON(d.v[i].v)
      [] OTHER -> FALSE

(***************************************************************************)
(* Characters.                                                             *)
(***************************************************************************)
Q == "\""
BS == "\\"
NL == "\n"
SP == " "
\* the backquote character (written as a named atom: a literal backquote would
\* open a quotation in the module text)
BT == "<backquote>"

DigitChars == <<"0", "1", "2", "3", "4", "5", "6", "7", "8", "9">>
IsDigit(c) == \E i \in 1..10 : DigitChars[i] = c
DigitVal(c) == (CHOOSE i \in 1..10 : DigitChars[i] = c) - 1

\* [a-z] under the i flag
Letters ==
    {"a", "b", "c", "d", "e", "f", "g", "h", "i", "j", "k", "l", "m",
     "n", "o", "p", "q", "r", "s", "t", "u", "v", "w", "x", "y", "z",
     "A", "B", "C", "D", "E", "F", "G", "H", "I", "J", "K", "L", "M",
     "N", "O", "P", "Q", "R", "S", "T", "U", "V", "W", "X", "Y", "Z"}

\* JSON white space (the alphabet used here has no other white space, so this
\* is also what String.prototype.trim removes)
IsWS(c) == c \in {SP, NL, "\t", "\r"}

Sub(s, i, j) == IF i > j THEN <<>> ELSE SubSeq(s, i, j)

\* s has the text p at position i
HasAt(s, i, p) ==
    /\ i >= 1
    /\ i + Len(p) - 1 <= Len(s)
    /\ \A k \in 1..Len(p) : s[i + k - 1] = p[k]

(***************************************************************************)
(* JSON.stringify(value, null, space) for space = 0 (compact) or 2.        *)
(***************************************************************************)
RECURSIVE Digits(_)
Digits(n) == IF n < 10 THEN <<DigitChars[n + 1]>>
             ELSE Digits(n \div 10) \o <<DigitChars[(n % 10) + 1]>>

NumText(n) == IF n < 0 THEN <<"-">> \o Digits(-n) ELSE Digits(n)

RECURSIVE Escape(_)
Escape(s) ==
    IF s = <<>> THEN <<>>
    ELSE (IF Head(s) \in {Q, BS} THEN <<BS, Head(s)>>
          ELSE IF Head(s) = NL THEN <<BS, "n">>
          ELSE <<Head(s)>>) \o Escape(Tail(s))

QuoteText(s) == <<Q>> \o Escape(s) \o <<Q>>

RECURSIVE Spaces(_)
Spaces(n) == IF n <= 0 THEN <<>> ELSE <<SP>> \o Spaces(n - 1)

RECURSIVE Stringify(_, _, _)
RECURSIVE StringifyItems(_, _, _, _, _)
\* the text of d; gap is the indent unit (0: compact), ind the current indent
Stringify(d, gap, ind) ==
    CASE d.t = "null" -> <<"n", "u", "l", "l">>
      [] d.t = "bool" -> IF d.v THEN <<"t", "r", "u", "e">>
                         ELSE <<"f", "a", "l", "s", "e">>
      [] d.t = "num" -> NumText(d.v)
      [] d.t = "str" -> QuoteText(d.v)
      [] d.t = "arr" ->
           IF d.v = <<>> THEN <<"[", "]">>
           ELSE <<"[">> \o StringifyItems(d.v, 1, gap, ind + gap, FALSE)
                \o (IF gap > 0 THEN <<NL>> \o Spaces(ind) ELSE <<>>) \o <<"]">>
      [] d.t = "obj" ->
           IF d.v = <<>> THEN <<"{", "}">>
           ELSE <<"{">> \o StringifyItems(d.v, 1, gap, ind + gap, TRUE)
                \o (IF gap > 0 THEN <<NL>> \o Spaces(ind) ELSE <<>>) \o <<"}">>
      \* an Error object has no enumerable property
      [] d.t = "error" -> <<"{", "}">>
      \* JSON.stringify(undefined) is undefined: no text
      [] OTHER -> <<>>

\* items i.. of an array (members of an object when keyed), comma separated
StringifyItems(items, i, gap, ind, keyed) ==
    IF i > Len(items) THEN <<>>
    ELSE (IF i > 1 THEN <<",">> ELSE <<>>)
         \o (IF gap > 0 THEN <<NL>> \o Spaces(ind) ELSE <<>>)
         \o (IF keyed
             THEN QuoteText(items[i].k) \o <<":">>
                  \o (IF gap > 0 THEN <<SP>> ELSE <<>>)
                  \o Stringify(items[i].v, gap, ind)
             ELSE Stringify(items[i], gap, ind))
         \o StringifyItems(items, i + 1, gap, ind, keyed)

\* JSON.stringify(d)
JSONstringify(d) == Stringify(d, 0, 0)
\* JSON.stringify(d, null, 2)
JSONstringifyPretty(d) == Stringify(d, 2, 0)

(***************************************************************************)
(* JSON.parse, by recursive descent over the characters.  A result is      *)
(* [ok, val, pos]: pos is the position after the value.  Numbers are the   *)
(* integers (no fraction or exponent part occurs in the texts used here).  *)
(***************************************************************************)
Fail == [ok |-> FALSE, val |-> JNull, pos |-> 0]
Ok(d, p) == [ok |-> TRUE, val |-> d, pos |-> p]

RECURSIVE SkipWS(_, _)
SkipWS(s, i) == IF i <= Len(s) /\ IsWS(s[i]) THEN SkipWS(s, i + 1) ELSE i

RECURSIVE ParseChars(_, _, _)
\* the characters of a string literal from position i (after the opening
\* quote) up to the closing quote
ParseChars(s, i, acc) ==
    IF i > Len(s) THEN Fail
    ELSE IF s[i] = Q THEN Ok(JStr(acc), i + 1)
    ELSE IF s[i] = BS
         THEN IF i + 1 > Len(s) THEN Fail
              ELSE IF s[i + 1] \in {Q, BS, "/"}
                   THEN ParseChars(s, i + 2, Append(acc, s[i + 1]))
              ELSE IF s[i + 1] = "n" THEN ParseChars(s, i + 2, Append(acc, NL))
              ELSE Fail
    ELSE IF s[i] \in {NL, "\t", "\r"} THEN Fail
    ELSE ParseChars(s, i + 1, Append(acc, s[i]))

RECURSIVE ParseDigits(_, _, _)
ParseDigits(s, i, acc) ==
    IF i <= Len(s) /\ IsDigit(s[i])
    THEN ParseDigits(s, i + 1, 10 * acc + DigitVal(s[i]))
    ELSE [val |-> acc, pos |-> i]

\* -? (0 | [1-9][0-9]*)
ParseNumber(s, i) ==
    LET neg == i <= Len(s) /\ s[i] = "-"
        j == IF neg THEN i + 1 ELSE i
    IN  IF j > Len(s) \/ ~IsDigit(s[j]) THEN Fail
        ELSE IF s[j] = "0" THEN Ok(JNum(0), j + 1)
        ELSE LET r == ParseDigits(s, j, 0)
             IN  Ok(JNum(IF neg THEN 0 - r.val ELSE r.val), r.pos)

\* JavaScript object semantics: a repeated key keeps its first position and
\* takes the last value
SetMember(o, k, d) ==
    IF \E i \in 1..Len(o) : o[i].k = k
    THEN [i \in 1..Len(o) |-> IF o[i].k = k THEN Member(k, d) ELSE o[i]]
    ELSE Append(o, Member(k, d))

RECURSIVE ParseValue(_, _)
RECURSIVE ParseElements(_, _, _)
RECURSIVE ParseMembers(_, _, _)
\* the value starting at position i (white space already skipped)
ParseValue(s, i) ==
    IF i > Len(s) THEN Fail
    ELSE CASE s[i] = "{" ->
                LET j == SkipWS(s, i + 1)
                IN  IF j <= Len(s) /\ s[j] = "}" THEN Ok(EmptyObj, j + 1)
                    ELSE ParseMembers(s, j, <<>>)
           [] s[i] = "[" ->
                LET j == SkipWS(s, i + 1)
                IN  IF j <= Len(s) /\ s[j] = "]" THEN Ok(EmptyArr, j + 1)
                    ELSE ParseElements(s, j, <<>>)
           [] s[i] = Q -> ParseChars(s, i + 1, <<>>)
           [] s[i] = "-" \/ IsDigit(s[i]) -> ParseNumber(s, i)
           [] HasAt(s, i, <<"n", "u", "l", "l">>) -> Ok(JNull, i + 4)
           [] HasAt(s, i, <<"t", "r", "u", "e">>) -> Ok(JBool(TRUE), i + 4)
           [] HasAt(s, i, <<"f", "a", "l", "s", "e">>) -> Ok(JBool(FALSE), i + 5)
           [] OTHER -> Fail

\* the elements of an array from position i, up to the closing bracket
ParseElements(s, i, acc) ==
    LET r == ParseValue(s, i)
    IN  IF ~r.ok THEN Fail
        ELSE LET j == SkipWS(s, r.pos)
             IN  IF j > Len(s) THEN Fail
                 ELSE IF s[j] = "]" THEN Ok(JArr(Append(acc, r.val)), j + 1)
                 ELSE IF s[j] = ","
                      THEN ParseElements(s, SkipWS(s, j + 1), Append(acc, r.val))
                 ELSE Fail

\* the members of an object from position i, up to the closing brace
ParseMembers(s, i, acc) ==
    IF i > Len(s) \/ s[i] # Q THEN Fail
    ELSE LET k == ParseChars(s, i + 1, <<>>)
         IN  IF ~k.ok THEN Fail
             ELSE LET c == SkipWS(s, k.pos)
                  IN  IF c > Len(s) \/ s[c] # ":" THEN Fail
                      ELSE LET r == ParseValue(s, SkipWS(s, c + 1))
                           IN  IF ~r.ok THEN Fail
                               ELSE LET j == SkipWS(s, r.pos)
                                        o == SetMember(acc, k.val.v, r.val)
                                    IN  IF j > Len(s) THEN Fail
                                        ELSE IF s[j] = "}" THEN Ok(JObj(o), j + 1)
                                        ELSE IF s[j] = ","
                                             THEN ParseMembers(s, SkipWS(s, j + 1), o)
                                        ELSE Fail

\* the message of the SyntaxError JSON.parse throws
SyntaxErrorMsg == <<"Unexpected token in JSON">>

\* JSON.parse(s): [ok |-> TRUE, val] or, when it throws, [ok |-> FALSE, val]
\* with val the Error thrown
JSONparse(s) ==
    LET r == ParseValue(s, SkipWS(s, 1))
    IN  IF r.ok /\ SkipWS(s, r.pos) > Len(s)
        THEN [ok |-> TRUE, val |-> r.val]
        ELSE [ok |-> FALSE, val |-> JErr(SyntaxErrorMsg)]

(***************************************************************************)
(* callOpenRouter.  The outcome of the fetch is an input: the request is   *)
(* rejected (network failure), answered with a non-2xx status, or answered *)
(* with a body whose choices[0].message.content is a text.                 *)
(***************************************************************************)
\* no fetch
NoResponse == [net |-> "", ok |-> FALSE, statusText |-> "", content |-> <<>>]
NetworkFailure == [net |-> "rejected", ok |-> FALSE, statusText |-> "", content |-> <<>>]
HttpError(st) == [net |-> "answered", ok |-> FALSE, statusText |-> st, content |-> <<>>]
HttpOk(c) == [net |-> "answered", ok |-> TRUE, statusText |-> "OK", content |-> c]

Fence == <<BT, BT, BT>>

IsJsonTagAt(s, i) ==
    /\ HasAt(s, i, Fence)
    /\ i + 6 <= Len(s)
    /\ s[i + 3] \in {"j", "J"} /\ s[i + 4] \in {"s", "S"}
    /\ s[i + 5] \in {"o", "O"} /\ s[i + 6] \in {"n", "N"}

RECURSIVE StripJsonTag(_, _)
\* content.replace(/FENCEjson/gi, ''), FENCE being three backquotes
StripJsonTag(s, i) ==
    IF i > Len(s) THEN <<>>
    ELSE IF IsJsonTagAt(s, i) THEN StripJsonTag(s, i + 7)
    ELSE <<s[i]>> \o StripJsonTag(s, i + 1)

RECURSIVE SkipLetters(_, _)
SkipLetters(s, i) ==
    IF i <= Len(s) /\ s[i] \in Letters THEN SkipLetters(s, i + 1) ELSE i

RECURSIVE StripOpener(_, _)
\* content.replace(/FENCE[a-z]*\n/gi, '')
StripOpener(s, i) ==
    IF i > Len(s) THEN <<>>
    ELSE LET j == SkipLetters(s, i + 3)
         IN  IF HasAt(s, i, Fence) /\ j <= Len(s) /\ s[j] = NL
             THEN StripOpener(s, j + 1)
             ELSE <<s[i]>> \o StripOpener(s, i + 1)

RECURSIVE StripFence(_, _)
\* content.replace(/FENCE/g, '')
StripFence(s, i) ==
    IF i > Len(s) THEN <<>>
    ELSE IF HasAt(s, i, Fence) THEN StripFence(s, i + 3)
    ELSE <<s[i]>> \o StripFence(s, i + 1)

RECURSIVE LastNonWS(_, _)
LastNonWS(s, j) == IF j >= 1 /\ IsWS(s[j]) THEN LastNonWS(s, j - 1) ELSE j

\* s.trim()
Trim(s) == Sub(s, SkipWS(s, 1), LastNonWS(s, Len(s)))

\* the cleaning of the content before JSON.parse
CleanContent(c) == Trim(StripFence(StripOpener(StripJsonTag(c, 1), 1), 1))

ApiErrorMsg(st) == <<"API Error: ", st>>
FetchErrorMsg == <<"Failed to fetch">>
GenericAIErrorMsg == <<"AI returned invalid JSON format or failed to generate.">>

\* callOpenRouterTry with a parse that falls back to the text: on a content
\* that does not parse, the content is returned as a string
callOpenRouterTryLenient(resp) ==
    IF resp.net = "rejected" THEN [ok |-> FALSE, val |-> JErr(FetchErrorMsg)]
    ELSE IF ~resp.ok THEN [ok |-> FALSE, val |-> JErr(ApiErrorMsg(resp.statusText))]
    ELSE IF JSONparse(CleanContent(resp.content)).ok
         THEN JSONparse(CleanContent(resp.content))
    ELSE [ok |-> TRUE, val |-> JStr(CleanContent(resp.content))]

\* the body of the try block: the value returned, or the error thrown in it
callOpenRouterTry(resp) ==
    IF resp.net = "rejected" THEN [ok |-> FALSE, val |-> JErr(FetchErrorMsg)]
    ELSE IF ~resp.ok THEN [ok |-> FALSE, val |-> JErr(ApiErrorMsg(resp.statusText))]
    ELSE JSONparse(CleanContent(resp.content))

\* a catch block that throws on what it caught
callOpenRouterRethrow(e) == e

\* the catch block: whatever was thrown is replaced by one generic Error
callOpenRouterCatch(e) == JErr(GenericAIErrorMsg)

\* what the awaited call gives its caller: [ok |-> TRUE, val |-> data], or
\* [ok |-> FALSE, val |-> the Error thrown]
callOpenRouter(resp) ==
    LET r == callOpenRouterTry(resp)
    IN  IF r.ok THEN r ELSE [ok |-> FALSE, val |-> callOpenRouterCatch(r.val)]

(***************************************************************************)
(* utils: deepMerge.                                                       *)
(***************************************************************************)
\* the own enumerable members of an object or an array, in the order of
\* Object.keys (an array has its indices as keys)
OwnMembers(d) ==
    IF d.t = "arr" THEN [i \in 1..Len(d.v) |-> Member(NumText(i - 1), d.v[i])] ELSE d.v

\* key in o
HasKey(o, k) == \E i \in 1..Len(o) : o[i].k = k
\* o[key]
GetMember(o, k) == o[CHOOSE i \in 1..Len(o) : o[i].k = k].v

RECURSIVE deepMerge(_, _)
RECURSIVE deepMergeKeys(_, _, _, _)
\* the forEach over Object.keys(source), from its i-th key on
deepMergeKeys(output, target, source, i) ==
    IF i > Len(source) THEN output
    ELSE LET key == source[i].k
             val == source[i].v
             merged == IF val.t = "obj" /\ HasKey(target, key)
                       THEN deepMerge(GetMember(target, key), val)
                       ELSE val
         IN  deepMergeKeys(SetMember(output, key, merged), target, source, i + 1)

deepMerge(target, source) ==
    IF ~IsObjectLike(target) THEN source
    ELSE IF ~IsObjectLike(source) THEN source
    ELSE JObj(deepMergeKeys(OwnMembers(target), OwnMembers(target), OwnMembers(source), 1))

(***************************************************************************)
(* Bounds of the model and the inputs of a session.                        *)
(***************************************************************************)
\* generation requests in flight at one time
MaxInflight == 1
\* generation requests in flight at one time, in the sessions where requests
\* of one field race
MaxRace == 2
\* slug queries in flight at one time
MaxChecks == 1
\* save requests in flight at one time
MaxSaves == 1
\* list queries awaited at once
MaxFetches == 2
\* delete requests awaited at once
MaxDeletes == 1

\* {"base_price":100}
Price100 == JObj(<<Member(<<"b", "a", "s", "e", "_", "p", "r", "i", "c", "e">>, JNum(100))>>)

\* {"base_price":150}
Price150 == JObj(<<Member(<<"b", "a", "s", "e", "_", "p", "r", "i", "c", "e">>, JNum(150))>>)

TextPrice150 ==
    <<"{", Q, "b", "a", "s", "e", "_", "p", "r", "i", "c", "e", Q, ":", "1", "5", "0", "}">>
TextNull == <<"n", "u", "l", "l">>
TextProse == <<"S", "o", "r", "r", "y", ".">>
\* a text cut off in the middle of typing
TextPartial == <<"{", Q, "a", Q, ":">>
\* {"vat":true}
TextVat == <<"{", Q, "v", "a", "t", Q, ":", "t", "r", "u", "e", "}">>

\* the texts a model response may carry as its content
ResponseContents ==
    { TextPrice150,
      Fence \o <<"j", "s", "o", "n", NL>> \o TextPrice150 \o <<NL>> \o Fence,
      TextNull,
      TextProse }

\* the outcomes of one fetch
Responses ==
    {NetworkFailure, HttpError("Unauthorized")} \cup {HttpOk(c) : c \in ResponseContents}

\* a fenced block around the payload P: with the json tag, or with no tag
Wrap(tagged, P) ==
    Fence \o (IF tagged THEN <<"j", "s", "o", "n">> ELSE <<>>) \o <<NL>> \o P \o <<NL>> \o Fence

\* ["a", "FENCE"]: a payload with a triple backquote inside a string
TextFenceInString == <<"[", Q, "a", Q, ",", Q>> \o Fence \o <<Q, "]">>
\* ["a", "B"], B one backquote
TextTickInString == <<"[", Q, "a", Q, ",", Q, BT, Q, "]">>
\* [1, 2]
TextArray == <<"[", "1", ",", SP, "2", "]">>

\* the JSON payload texts a model wraps in a fenced block
FencePayloads == {TextPrice150, TextNull, TextArray, TextTickInString, TextFenceInString}

\* a fenced response: the payload and the content that wraps it
FenceCases ==
    {[payload |-> P, content |-> Wrap(tagged, P)] : P \in FencePayloads, tagged \in BOOLEAN}
FenceResponses == {HttpOk(fc.content) : fc \in FenceCases}

\* the texts the user leaves in the raw textarea
TypedTexts == {TextPartial, TextVat, TextNull}

\* what led callOpenRouter to throw, or "none"
Cause(resp) ==
    IF resp.net = "" THEN "none"
    ELSE IF resp.net = "rejected" THEN "network"
    ELSE IF ~resp.ok THEN "status"
    ELSE IF ~JSONparse(CleanContent(resp.content)).ok THEN "parse"
    ELSE "none"

\* the keys of the form
ScalarKeys == {"title", "slug", "tour_type", "primary_destination", "promo_link"}
JSONB_FIELDS ==
    {"content_data", "logistics_data", "itinerary_data",
     "provisions_data", "requirements_data", "pricing_data"}
FormKeys == {"id"} \cup ScalarKeys \cup JSONB_FIELDS

\* the text of a key of the form, as it occurs in a JSON object
KeyText ==
    [k \in FormKeys |->
        CASE k = "id" -> <<"i", "d">>
          [] k = "title" -> <<"t", "i", "t", "l", "e">>
          [] k = "slug" -> <<"s", "l", "u", "g">>
          [] k = "tour_type" -> <<"t", "o", "u", "r", "_", "t", "y", "p", "e">>
          [] k = "primary_destination" ->
                <<"p", "r", "i", "m", "a", "r", "y", "_",
                  "d", "e", "s", "t", "i", "n", "a", "t", "i", "o", "n">>
          [] k = "promo_link" -> <<"p", "r", "o", "m", "o", "_", "l", "i", "n", "k">>
          [] k = "content_data" ->
                <<"c", "o", "n", "t", "e", "n", "t", "_", "d", "a", "t", "a">>
          [] k = "logistics_data" ->
                <<"l", "o", "g", "i", "s", "t", "i", "c", "s", "_", "d", "a", "t", "a">>
          [] k = "itinerary_data" ->
                <<"i", "t", "i", "n", "e", "r", "a", "r", "y", "_", "d", "a", "t", "a">>
          [] k = "provisions_data" ->
                <<"p", "r", "o", "v", "i", "s", "i", "o", "n", "s", "_", "d", "a", "t", "a">>
          [] k = "requirements_data" ->
                <<"r", "e", "q", "u", "i", "r", "e", "m", "e", "n", "t", "s", "_",
                  "d", "a", "t", "a">>
          [] k = "pricing_data" ->
                <<"p", "r", "i", "c", "i", "n", "g", "_", "d", "a", "t", "a">>]

\* a complete answer to the master prompt, cut down to two of its keys:
\* {"title":"M","pricing_data":{"base_price":150}}
MasterData ==
    JObj(<<Member(KeyText["title"], JStr(<<"M">>)), Member(KeyText["pricing_data"], Price150)>>)
\* an answer to the basic-info prompt: {"title":"M","slug":"n"}
BasicData ==
    JObj(<<Member(KeyText["title"], JStr(<<"M">>)), Member(KeyText["slug"], JStr(<<"n">>))>>)

\* an answer that also carries a key nobody asked for:
\* {"id":2,"title":"M","slug":"n"}
IdData ==
    JObj(<<Member(KeyText["id"], JNum(2)), Member(KeyText["title"], JStr(<<"M">>)),
           Member(KeyText["slug"], JStr(<<"n">>))>>)

\* the outcomes of the fetch of a record-level generation
HostResponses ==
    {HttpOk(JSONstringify(MasterData)), HttpOk(JSONstringify(BasicData)),
     HttpOk(JSONstringify(IdData)), HttpError("Unauthorized")}

\* answers whose content is a JSON number, and an object
TextSeven == <<"7">>
ScalarResponses == {HttpOk(TextSeven), HttpOk(TextPrice150)}

\* callOpenRouter and JSON.parse on the inputs of a session, computed once
CallResult ==
    [resp \in Responses \cup FenceResponses \cup HostResponses \cup ScalarResponses
        |-> callOpenRouter(resp)]
ParseTyped == [t \in TypedTexts |-> JSONparse(t)]
CauseOf == [resp \in Responses \cup {NoResponse} |-> Cause(resp)]

\* the texts the user leaves in the prompt textarea
Prompts == {<<>>, <<SP>>, <<"g", "o">>}

(***************************************************************************)
(* TourEditor: the form state.                                             *)
(***************************************************************************)
Tabs == {"basic"} \cup JSONB_FIELDS \cup {"preview"}

\* the tabs the user visits in a session
VisitTabs == {"basic", "pricing_data"}

\* the initial form of a new tour (tour is null)
NewTourForm ==
    [k \in FormKeys |->
        IF k = "id" THEN JUndef
        ELSE IF k \in ScalarKeys THEN JStr(<<>>)
        ELSE IF k = "itinerary_data" THEN EmptyArr
        ELSE EmptyObj]

\* a record of the table, opened for editing
ExistingTour ==
    [NewTourForm EXCEPT !["id"] = JNum(1),
                        !["title"] = JStr(<<"T">>),
                        !["slug"] = JStr(<<"t">>),
                        !["pricing_data"] = Price100]

\* the value prop of the field editor on tab
EditorValue(fd, tab) ==
    Or(fd[tab], IF tab = "itinerary_data" THEN EmptyArr ELSE EmptyObj)

Toast(message, type) == [message |-> message, type |-> type]

\* the form in the closure of a field editor's onChange.  onChange overwrites
\* the field of the editor's own tab, so that field of the closure is never
\* read and is left out.
ClosureForm(fd, tab) == [fd EXCEPT ![tab] = JUndef]


VARIABLES
    formData,      \* TourEditor: the form, a value per key
    activeTab,     \* TourEditor: the tab shown
    mode,          \* AIAssistedEditor: "preview" or "raw"
    rawText,       \* AIAssistedEditor: the raw text buffer
    error,         \* AIAssistedEditor: the inline error (empty: none)
    prompt,        \* AIAssistedEditor: the prompt text
    isProcessing,  \* AIAssistedEditor: a generation is awaited
    inflight,      \* callOpenRouter calls awaited, each with the closure of its caller
    toasted,       \* the toasts the handler that ran last gave to addToast
    last,          \* the handler that ran last and how it ended
    isSaving,      \* TourEditor: a save or a record-level generation is awaited
    slugChecking,  \* TourEditor: a slug query is awaited
    slugError,     \* TourEditor: the slug error (empty: none)
    debouncedSlug, \* TourEditor: useDebounce(formData.slug, 400)
    checks,        \* slug queries awaited, each the slug it asks for
    saves,         \* handleCreateOrUpdate calls awaited, each with its tourData
    editingTour,   \* App: null (the list), {} (a new tour) or the tour edited
    fetchToursCalls, \* App: calls of fetchTours made by handleCreateOrUpdate
    unusedReported, \* history: the slugs a completed slug query reported unused
    table,         \* the ids of the rows of travel_tours in the datastore
    tours,         \* App: the rows listed, each named by its id
    totalCount,    \* App: the count of the last fetch, less the deletes since
    loading,       \* App: the loading flag
    appError,      \* App: the error state (empty: none)
    searchTerm,    \* App: the text of the search input
    debouncedSearch, \* App: useDebounce(searchTerm, 300)
    page,          \* App: the page number
    perPage,       \* App: the page size
    sortCol,       \* App: the column sorted by
    sortAsc,       \* App: ascending order
    deleteId,      \* App: the id the delete modal is open for (0: null, closed)
    deleteConfirmText, \* App: the text of the confirmation input
    fetches,       \* queries of fetchTours awaited, each with its parameters
    deletes,       \* delete requests awaited, each with the closure of handleDelete
    typedFor       \* history: the id for which DELETE was typed since the modal opened

editorVars == <<mode, rawText, error, prompt, isProcessing>>
listVars == <<table, tours, totalCount, loading, appError, searchTerm, debouncedSearch,
              page, perPage, sortCol, sortAsc, deleteId, deleteConfirmText, fetches,
              deletes, typedFor>>
hostVars == <<isSaving, slugChecking, slugError, debouncedSlug, checks, saves,
              editingTour, fetchToursCalls, unusedReported, listVars>>
vars == <<formData, activeTab, mode, rawText, error, prompt, isProcessing,
          inflight, toasted, last, isSaving, slugChecking, slugError,
          debouncedSlug, checks, saves, editingTour, fetchToursCalls,
          unusedReported, listVars>>

\* a field editor is mounted exactly on the tabs of the JSON fields
Mounted == activeTab \in JSONB_FIELDS

NoRefs == [f \in JSONB_FIELDS |-> 0]

(***************************************************************************)
(* Object identity.  The effect of the field editor compares its value     *)
(* prop by identity (Object.is).  A request in flight holds, in its        *)
(* closure, the form of the render that issued it; refs[f] of a request    *)
(* names the object its form holds for field f, 0 being the object the     *)
(* current form holds.                                                     *)
(***************************************************************************)
FirstPos(L, x) == CHOOSE j \in 1..Len(L) : L[j] = x /\ \A k \in 1..(j - 1) : L[k] # x
Rank(L, x) == Cardinality({L[k] : k \in 1..(FirstPos(L, x) - 1)})

\* the requests reqs, their refs renamed so that the objects cur names are 0
Rebase(reqs, cur) ==
    [i \in 1..Len(reqs) |->
        [reqs[i] EXCEPT !.refs =
            [f \in JSONB_FIELDS |->
                IF f = reqs[i].tab THEN 0
                ELSE Rank(<<cur[f]>> \o [j \in 1..Len(reqs) |-> reqs[j].refs[f]],
                          reqs[i].refs[f])]]]

\* a name no request uses: the name of a newly created object
FreshRef == MaxInflight + MaxRace + 2

\* Object.is(old value prop, new value prop) is false, the parent having
\* rendered with form fd1 whose field objects are named cur1
ValueChanged(fd0, fd1, cur1, tab) ==
    IF Falsy(fd1[tab]) \/ Falsy(fd0[tab]) THEN TRUE
    ELSE IF IsObjectLike(fd1[tab]) THEN ~IsObjectLike(fd0[tab]) \/ cur1[tab] # 0
    ELSE fd0[tab] # fd1[tab]

RemoveAt(q, i) == Sub(q, 1, i - 1) \o Sub(q, i + 1, Len(q))

(***************************************************************************)
(* AIAssistedEditor.                                                       *)
(***************************************************************************)
\* the text the effect on [mode, value] puts in the raw buffer
EffectText(fd, tab) == JSONstringifyPretty(Or(EditorValue(fd, tab), EmptyObj))

\* last: the handler that ran, the tab of the editor it belongs to and, for
\* the part of handleAIGenerate after its await, how the fetch ended
Event(op, tab, resp) == [op |-> op, tab |-> tab, resp |-> resp]

\* the closure of the handlers of the render on screen
Closure ==
    [kind |-> "field", tab |-> activeTab, snap |-> ClosureForm(formData, activeTab),
     refs |-> NoRefs, mode |-> mode, live |-> TRUE]

\* onChange of closure c: val => setFormData({ ...formData, [activeTab]: val }),
\* the form it sets
onChange(c, val) == [c.snap EXCEPT ![c.tab] = val]

\* the objects of the form onChange of closure c sets, val being a new object
onChangeRefs(c) == [c.refs EXCEPT ![c.tab] = FreshRef]

(***************************************************************************)
(* App: the list of tours, its query and the datastore behind it.          *)
(***************************************************************************)
\* the rows of travel_tours when a session starts, each named by its id
NRows == 11
Rows == 1..NRows

\* the page sizes chosen in the select, out of 10, 25 and 50
PerPageChoices == {10, 25}
\* the texts typed in the search input
SearchTerms == {<<>>, <<"a">>}
\* the columns sorted by, out of id, title, tour_type and primary_destination
SortCols == {"id", "title"}
\* the texts typed in the confirmation input
DELETE == <<"DELETE">>
ConfirmTexts == {<<>>, DELETE, <<"delete">>}
\* the rows whose delete button is clicked
DeleteCandidates == {1, NRows}

\* or(title.ilike..., slug.ilike..., ...): the rows that match the term
Matching(term) == IF term = <<>> THEN Rows ELSE {3}

\* the value of a row in a column: the titles are in another order than the ids
SortKey(col, id) == IF col = "id" THEN id ELSE (id * 5) % 13

\* order(sortCol, { ascending }) on the rows S
Ordered(S, col, asc) ==
    [k \in 1..Cardinality(S) |->
        CHOOSE x \in S :
            Cardinality({y \in S : IF asc THEN SortKey(col, y) < SortKey(col, x)
                                        ELSE SortKey(col, y) > SortKey(col, x)}) = k - 1]

\* the parameters of the query fetchTours builds: those of the render that
\* created the callback
QueryParams ==
    [search |-> debouncedSearch, page |-> page, perPage |-> perPage,
     sortCol |-> sortCol, sortAsc |-> sortAsc]

\* what the query q answers on the table tb: the rows of the range
\* from..to of the matching rows in order, and the count of the matching rows
QueryResult(tb, q) ==
    LET all == Ordered(tb \cap Matching(q.search), q.sortCol, q.sortAsc)
        from == (q.page - 1) * q.perPage
        to == from + q.perPage - 1
    IN  [data |-> [k \in 1..(IF to + 1 <= Len(all) THEN q.perPage
                             ELSE IF from >= Len(all) THEN 0
                             ELSE Len(all) - from) |-> all[from + k]],
         count |-> Cardinality(tb \cap Matching(q.search))]

\* the tables and the queries of a session, and the answers computed once
Tables == {Rows \ D : D \in SUBSET DeleteCandidates}
MaxPage == (NRows + 9) \div 10
Queries ==
    [search : SearchTerms, page : 1..MaxPage, perPage : PerPageChoices,
     sortCol : SortCols, sortAsc : BOOLEAN]
QueryResults == [x \in Tables \X Queries |-> QueryResult(x[1], x[2])]
\* the same function, in extension (the comparison tabulates it)
QueryAnswer == IF QueryResults = QueryResults THEN QueryResults ELSE QueryResults

\* the state of App at its mount
FirstQuery == [search |-> <<>>, page |-> 1, perPage |-> 25, sortCol |-> "id", sortAsc |-> FALSE]

\* the list is closed: no modal, nothing typed, nothing awaited
ListIdle ==
    /\ table = Rows
    /\ appError = <<>>
    /\ searchTerm = <<>>
    /\ debouncedSearch = <<>>
    /\ page = 1
    /\ perPage = 25
    /\ sortCol = "id"
    /\ sortAsc = FALSE
    /\ deleteId = 0
    /\ deleteConfirmText = <<>>
    /\ deletes = <<>>
    /\ typedFor = 0

\* App when an editor was opened from the list: the first fetch has answered
ListLoaded ==
    /\ ListIdle
    /\ tours = QueryResult(Rows, FirstQuery).data
    /\ totalCount = QueryResult(Rows, FirstQuery).count
    /\ loading = FALSE
    /\ fetches = <<>>

Init ==
    /\ formData \in {NewTourForm, ExistingTour}
    /\ activeTab = "basic"
    /\ mode = "preview"
    /\ rawText = <<>>
    /\ error = <<>>
    /\ prompt = <<>>
    /\ isProcessing = FALSE
    /\ inflight = <<>>
    /\ toasted = <<>>
    /\ last = Event("mount", "", NoResponse)
    /\ isSaving = FALSE
    /\ slugChecking = FALSE
    /\ slugError = <<>>
    /\ debouncedSlug = formData["slug"]
    /\ checks = <<>>
    /\ saves = <<>>
    /\ editingTour = (IF formData = NewTourForm THEN EmptyObj ELSE formData)
    /\ fetchToursCalls = 0
    /\ unusedReported = {}
    /\ ListLoaded

\* setActiveTab(t).  The field editor is keyed by the tab: another tab
\* unmounts it (its state is lost, the calls it awaits go on) and mounts a
\* new one.
MountTab(t) ==
    /\ activeTab' = t
    /\ IF t = activeTab
       THEN UNCHANGED <<editorVars, inflight>>
       ELSE /\ mode' = "preview"
            /\ rawText' = <<>>
            /\ error' = <<>>
            /\ prompt' = <<>>
            /\ isProcessing' = FALSE
            /\ inflight' = [i \in 1..Len(inflight) |->
                                IF inflight[i].kind = "field"
                                THEN [inflight[i] EXCEPT !.live = FALSE]
                                ELSE inflight[i]]

\* a click on a tab
setActiveTab(t) ==
    /\ MountTab(t)
    /\ toasted' = <<>>
    /\ last' = Event("setActiveTab", "", NoResponse)
    /\ UNCHANGED formData
    /\ UNCHANGED hostVars

\* a click on the Display or the Raw Data button, and the effect on
\* [mode, value] that follows the render
setMode(m) ==
    /\ Mounted
    /\ mode' = m
    /\ IF m = "raw" /\ mode # "raw"
       THEN /\ rawText' = EffectText(formData, activeTab)
            /\ error' = <<>>
       ELSE UNCHANGED <<rawText, error>>
    /\ toasted' = <<>>
    /\ last' = Event("setMode", activeTab, NoResponse)
    /\ UNCHANGED <<formData, activeTab, prompt, isProcessing, inflight>>
    /\ UNCHANGED hostVars

\* a change handler that commits the text as soon as it parses
rawOnChangeCommits(txt) ==
    /\ Mounted /\ mode = "raw"
    /\ rawText' = txt
    /\ error' = (IF ParseTyped[txt].ok THEN <<>> ELSE ParseTyped[txt].val.v)
    /\ formData' = (IF ParseTyped[txt].ok THEN onChange(Closure, ParseTyped[txt].val)
                    ELSE formData)
    /\ toasted' = <<>>
    /\ last' = Event("rawOnChange", activeTab, NoResponse)
    /\ UNCHANGED <<activeTab, mode, prompt, isProcessing, inflight>>
    /\ UNCHANGED hostVars

\* a change of the raw textarea to the text txt
rawOnChange(txt) ==
    /\ Mounted /\ mode = "raw"
    /\ rawText' = txt
    /\ error' = (IF ParseTyped[txt].ok THEN <<>> ELSE ParseTyped[txt].val.v)
    /\ toasted' = <<>>
    /\ last' = Event("rawOnChange", activeTab, NoResponse)
    /\ UNCHANGED <<formData, activeTab, mode, prompt, isProcessing, inflight>>
    /\ UNCHANGED hostVars

\* handleRawBlur, JSON.parse having returned parsed: onChange(parsed),
\* setError(''), and the effect on [mode, value] when the value prop changed
handleRawBlurTry(parsed) ==
    LET fd1 == onChange(Closure, parsed)
    IN  /\ formData' = fd1
        /\ inflight' = Rebase(inflight, onChangeRefs(Closure))
        /\ error' = <<>>
        /\ rawText' = (IF ValueChanged(formData, fd1, onChangeRefs(Closure), activeTab)
                       THEN EffectText(fd1, activeTab) ELSE rawText)
        /\ toasted' = <<>>
        /\ last' = Event("handleRawBlur.try", activeTab, NoResponse)

\* a catch block that reports the parse error as a toast
handleRawBlurCatchToasts(err) ==
    /\ toasted' = <<Toast(err.v, "error")>>
    /\ last' = Event("handleRawBlur.catch", activeTab, NoResponse)
    /\ UNCHANGED <<formData, inflight, rawText, error>>

\* handleRawBlur, JSON.parse having thrown err: setError(err.message)
handleRawBlurCatch(err) ==
    /\ error' = err.v
    /\ toasted' = <<>>
    /\ last' = Event("handleRawBlur.catch", activeTab, NoResponse)
    /\ UNCHANGED <<formData, inflight, rawText>>

\* a blur that hands whatever JSON.parse gave, value or Error, to onChange
handleRawBlurUnguarded ==
    /\ Mounted /\ mode = "raw"
    /\ handleRawBlurTry(JSONparse(rawText).val)
    /\ UNCHANGED <<activeTab, mode, prompt, isProcessing>>
    /\ UNCHANGED hostVars

\* the raw textarea loses the focus
handleRawBlur ==
    /\ Mounted /\ mode = "raw"
    /\ LET r == JSONparse(rawText)
       IN  IF r.ok THEN handleRawBlurTry(r.val) ELSE handleRawBlurCatch(r.val)
    /\ UNCHANGED <<activeTab, mode, prompt, isProcessing>>
    /\ UNCHANGED hostVars

\* a change of the prompt textarea (disabled while a generation is awaited)
setPrompt(p) ==
    /\ Mounted /\ ~isProcessing
    /\ prompt' = p
    /\ toasted' = <<>>
    /\ last' = Event("setPrompt", activeTab, NoResponse)
    /\ UNCHANGED <<formData, activeTab, mode, rawText, error, isProcessing, inflight>>
    /\ UNCHANGED hostVars

\* handleAIGenerate up to its await: Enter in the prompt textarea or a click
\* on Update (both disabled while a generation is awaited), with at most cap
\* requests in flight
handleAIGenerateWithin(cap) ==
    /\ Mounted /\ ~isProcessing
    /\ IF Trim(prompt) = <<>>
       THEN /\ last' = Event("handleAIGenerate.blank", activeTab, NoResponse)
            /\ UNCHANGED <<isProcessing, inflight>>
       ELSE /\ Len(inflight) < cap
            /\ isProcessing' = TRUE
            /\ inflight' = Append(inflight, Closure)
            /\ last' = Event("handleAIGenerate.await", activeTab, NoResponse)
    /\ toasted' = <<>>
    /\ UNCHANGED <<formData, activeTab, mode, rawText, error, prompt>>
    /\ UNCHANGED hostVars

handleAIGenerate == handleAIGenerateWithin(MaxInflight)

\* a try block that merges newData into the field instead of replacing it
handleAIGenerateTryMerges(i, newData) ==
    LET c == inflight[i]
        fd1 == onChange(c, deepMerge(formData[c.tab], newData))
    IN  /\ formData' = fd1
        /\ inflight' = Rebase(RemoveAt(inflight, i), onChangeRefs(c))
        /\ prompt' = (IF c.live THEN <<>> ELSE prompt)
        /\ toasted' = <<Toast(<<"Update successful">>, "success")>>
        /\ IF Mounted /\ mode = "raw"
              /\ ValueChanged(formData, fd1, onChangeRefs(c), activeTab)
           THEN /\ rawText' = EffectText(fd1, activeTab)
                /\ error' = <<>>
           ELSE /\ rawText' = (IF c.live /\ c.mode = "raw"
                               THEN JSONstringifyPretty(newData) ELSE rawText)
                /\ error' = error

\* handleAIGenerate after its await, callOpenRouter having returned newData
\* to the closure of request i: onChange(newData), setPrompt(''), the toast,
\* setRawText when the closure's mode is raw, and the effect on
\* [mode, value] of the editor on screen when its value prop changed.  The
\* setters of an unmounted editor do nothing.
handleAIGenerateTry(i, newData) ==
    LET c == inflight[i]
        fd1 == onChange(c, newData)
    IN  /\ formData' = fd1
        /\ inflight' = Rebase(RemoveAt(inflight, i), onChangeRefs(c))
        /\ prompt' = (IF c.live THEN <<>> ELSE prompt)
        /\ toasted' = <<Toast(<<"Update successful">>, "success")>>
        /\ IF Mounted /\ mode = "raw"
              /\ ValueChanged(formData, fd1, onChangeRefs(c), activeTab)
           THEN /\ rawText' = EffectText(fd1, activeTab)
                /\ error' = <<>>
           ELSE /\ rawText' = (IF c.live /\ c.mode = "raw"
                               THEN JSONstringifyPretty(newData) ELSE rawText)
                /\ error' = error

\* a catch block that also empties the field
handleAIGenerateCatchResets(i, err) ==
    /\ toasted' = <<Toast(err.v, "error")>>
    /\ formData' = onChange(inflight[i], EmptyObj)
    /\ inflight' = Rebase(RemoveAt(inflight, i), onChangeRefs(inflight[i]))
    /\ UNCHANGED <<rawText, error, prompt>>

\* a catch block that sends the request again
handleAIGenerateCatchRetries(i, err) ==
    /\ toasted' = <<Toast(err.v, "error")>>
    /\ inflight' = inflight
    /\ UNCHANGED <<formData, rawText, error, prompt>>

\* handleAIGenerate after its await, callOpenRouter having thrown err
handleAIGenerateCatch(i, err) ==
    /\ toasted' = <<Toast(err.v, "error")>>
    /\ inflight' = RemoveAt(inflight, i)
    /\ UNCHANGED <<formData, rawText, error, prompt>>

\* a resume whose failures leave the processing flag set
handleAIGenerateResumeNoFinally(i, resp) ==
    /\ inflight[i].kind = "field"
    /\ IF CallResult[resp].ok
       THEN /\ handleAIGenerateTry(i, CallResult[resp].val)
            /\ last' = Event("handleAIGenerate.try", inflight[i].tab, resp)
       ELSE /\ handleAIGenerateCatch(i, CallResult[resp].val)
            /\ last' = Event("handleAIGenerate.catch", inflight[i].tab, resp)
    /\ isProcessing' = (IF inflight[i].live /\ CallResult[resp].ok THEN FALSE ELSE isProcessing)
    /\ UNCHANGED <<activeTab, mode>>
    /\ UNCHANGED hostVars

\* a resume with a fence: the answer to a request whose editor is gone (a
\* newer editor of the field is on screen, or none) is discarded
handleAIGenerateResumeFenced(i, resp) ==
    /\ inflight[i].kind = "field"
    /\ IF CallResult[resp].ok /\ inflight[i].live
       THEN /\ handleAIGenerateTry(i, CallResult[resp].val)
            /\ last' = Event("handleAIGenerate.try", inflight[i].tab, resp)
       ELSE IF CallResult[resp].ok
       THEN /\ inflight' = RemoveAt(inflight, i)
            /\ toasted' = <<>>
            /\ last' = Event("handleAIGenerate.try", inflight[i].tab, resp)
            /\ UNCHANGED <<formData, rawText, error, prompt>>
       ELSE /\ handleAIGenerateCatch(i, CallResult[resp].val)
            /\ last' = Event("handleAIGenerate.catch", inflight[i].tab, resp)
    /\ isProcessing' = (IF inflight[i].live THEN FALSE ELSE isProcessing)
    /\ UNCHANGED <<activeTab, mode>>
    /\ UNCHANGED hostVars

\* handleAIGenerate from its await on, the fetch of request i ending as resp:
\* the try, catch and finally blocks
handleAIGenerateResume(i, resp) ==
    /\ inflight[i].kind = "field"
    /\ IF CallResult[resp].ok
       THEN /\ handleAIGenerateTry(i, CallResult[resp].val)
            /\ last' = Event("handleAIGenerate.try", inflight[i].tab, resp)
       ELSE /\ handleAIGenerateCatch(i, CallResult[resp].val)
            /\ last' = Event("handleAIGenerate.catch", inflight[i].tab, resp)
    /\ isProcessing' = (IF inflight[i].live THEN FALSE ELSE isProcessing)
    /\ UNCHANGED <<activeTab, mode>>
    /\ UNCHANGED hostVars

\* t(key): the text of key in the language shown
translate(key) == <<key>>

(***************************************************************************)
(* HumanReadableDisplay and the preview branch of the field editor.  An    *)
(* element is a record: its kind, and its text or its children.            *)
(***************************************************************************)
Span(text) == [el |-> "span", text |-> text]

\* String(node) of a boolean, a number or a string
StringOf(node) ==
    CASE node.t = "bool" -> (IF node.v THEN <<"t", "r", "u", "e">> ELSE <<"f", "a", "l", "s", "e">>)
      [] node.t = "num" -> NumText(node.v)
      [] OTHER -> node.v

RECURSIVE renderNode(_)
renderNode(node) ==
    CASE node.t \in {"null", "undefined"} -> Span(<<"Not provided">>)
      [] node.t = "arr" ->
            IF Len(node.v) = 0 THEN Span(<<"Empty list">>)
            ELSE [el |-> "ul", items |-> [i \in 1..Len(node.v) |-> renderNode(node.v[i])]]
      [] node.t = "obj" ->
            IF Len(node.v) = 0 THEN Span(<<"Empty">>)
            ELSE [el |-> "div",
                  rows |-> [i \in 1..Len(node.v) |->
                              [k |-> node.v[i].k,
                               v |-> IF node.v[i].v.t = "bool"
                                     THEN Span(IF node.v[i].v.v THEN <<"YES">> ELSE <<"NO">>)
                                     ELSE renderNode(node.v[i].v)]]]
      [] OTHER -> Span(StringOf(node))

\* what HumanReadableDisplay returns: null (nothing on screen) or the card
HumanReadableDisplay(data) ==
    IF data.t \in {"null", "undefined"} THEN [el |-> "null"]
    ELSE [el |-> "card", child |-> renderNode(data)]

\* the placeholder of the preview: t('noData') and t('typeInstructions')
NoDataPlaceholder == [el |-> "placeholder", text |-> translate("noData")]

\* the preview branch: what the field editor shows for its value prop
PreviewBranch(value) ==
    IF \/ value.t \in {"null", "undefined"}
       \/ IsObjectLike(value) /\ Len(value.v) = 0
    THEN NoDataPlaceholder
    ELSE HumanReadableDisplay(value)

\* what the field editor on tab shows in preview mode, the form being fd
Preview(fd, tab) == PreviewBranch(EditorValue(fd, tab))

(***************************************************************************)
(* TourEditor: record-level generation (the two boxes of the basic tab).   *)
(***************************************************************************)
\* the keys of the form that the spread of data sets: the own keys of an
\* object (an array has its indices as keys, null and a primitive have none)
SpreadKeys(data) ==
    IF data.t = "obj" THEN {k \in FormKeys : HasKey(data.v, KeyText[k])} ELSE {}

\* ({ ...prev, ...data }), on the keys of the form
Spread(prev, data) ==
    [k \in FormKeys |->
        IF k \in SpreadKeys(data) THEN GetMember(data.v, KeyText[k]) ELSE prev[k]]

\* the objects of the form Spread gives: those taken from data are new
SpreadRefs(data) ==
    [f \in JSONB_FIELDS |-> IF f \in SpreadKeys(data) THEN FreshRef ELSE 0]

\* the closure of a record-level generation: its setFormData is given an
\* updater (prev => ...), so that no form is captured
HostClosure(kind) ==
    [kind |-> kind, tab |-> "basic", snap |-> <<>>, refs |-> NoRefs,
     mode |-> "preview", live |-> TRUE]

\* handleMasterAIGenerate (kind "master": Enter in the master prompt or a
\* click on its button) and handleAIGenerateBasicInfo (kind "basic"), up
\* to the await.  The buttons are disabled while isSaving, the Enter keys
\* are not.
handleHostGenerate(kind, p, byButton) ==
    /\ editingTour # JNull /\ activeTab = "basic"
    /\ byButton => ~isSaving
    /\ IF Trim(p) = <<>>
       THEN /\ last' = Event(kind \o ".blank", "basic", NoResponse)
            /\ UNCHANGED <<isSaving, inflight>>
       ELSE /\ Len(inflight) < MaxInflight
            /\ isSaving' = TRUE
            /\ inflight' = Append(inflight, HostClosure(kind))
            /\ last' = Event(kind \o ".await", "basic", NoResponse)
    /\ toasted' = <<>>
    /\ UNCHANGED <<formData, activeTab, editorVars>>
    /\ UNCHANGED <<slugChecking, slugError, debouncedSlug, checks, saves,
                   editingTour, fetchToursCalls, unusedReported, listVars>>

handleMasterAIGenerate(p, byButton) == handleHostGenerate("handleMasterAIGenerate", p, byButton)

handleAIGenerateBasicInfo(p, byButton) == handleHostGenerate("handleAIGenerateBasicInfo", p, byButton)

\* a record-level generation from its await on, the fetch of request i
\* ending as resp: setFormData(prev => ({ ...prev, ...data })) and the
\* success toast, or the error toast; setIsSaving(false); and the effect on
\* [mode, value] of the field editor on screen when its value prop changed.
\* The setters of an unmounted TourEditor do nothing.
handleHostGenerateResume(i, resp) ==
    LET c == inflight[i]
        r == CallResult[resp]
        fd1 == IF c.live THEN Spread(formData, r.val) ELSE formData
    IN  /\ c.kind # "field"
        /\ IF r.ok
           THEN /\ formData' = fd1
                /\ inflight' = Rebase(RemoveAt(inflight, i),
                                      IF c.live THEN SpreadRefs(r.val) ELSE NoRefs)
                /\ toasted' = <<Toast(translate(IF c.kind = "handleMasterAIGenerate"
                                                THEN "masterSuccess"
                                                ELSE "aiAutoFillSuccess"),
                                      "success")>>
                /\ last' = Event(c.kind \o ".try", "basic", resp)
                /\ IF Mounted /\ mode = "raw"
                      /\ c.live
                      /\ ValueChanged(formData, fd1, SpreadRefs(r.val), activeTab)
                   THEN /\ rawText' = EffectText(fd1, activeTab)
                        /\ error' = <<>>
                   ELSE UNCHANGED <<rawText, error>>
           ELSE /\ toasted' = <<Toast(r.val.v, "error")>>
                /\ inflight' = RemoveAt(inflight, i)
                /\ last' = Event(c.kind \o ".catch", "basic", resp)
                /\ UNCHANGED <<formData, rawText, error>>
        /\ isSaving' = (IF c.live THEN FALSE ELSE isSaving)
        /\ UNCHANGED <<activeTab, mode, prompt, isProcessing>>
        /\ UNCHANGED <<slugChecking, slugError, debouncedSlug, checks, saves,
                       editingTour, fetchToursCalls, unusedReported, listVars>>

Next ==
    \/ \E t \in VisitTabs : setActiveTab(t)
    \/ \E m \in {"preview", "raw"} : setMode(m)
    \/ \E txt \in TypedTexts : rawOnChange(txt)
    \/ handleRawBlur
    \/ \E p \in Prompts : setPrompt(p)
    \/ handleAIGenerate
    \/ \E i \in 1..Len(inflight) : \E resp \in Responses : handleAIGenerateResume(i, resp)

Spec == Init /\ [][Next]_vars

(***************************************************************************)
(* Generation sessions in which the model answers with a fenced block.     *)
(***************************************************************************)
InitFence == Init

NextFence ==
    \/ \E t \in VisitTabs : setActiveTab(t)
    \/ \E m \in {"preview", "raw"} : setMode(m)
    \/ \E p \in Prompts : setPrompt(p)
    \/ handleAIGenerate
    \/ \E i \in 1..Len(inflight) : \E resp \in FenceResponses : handleAIGenerateResume(i, resp)

SpecFence == InitFence /\ [][NextFence]_vars

(***************************************************************************)
(* TourEditor: title, slug, the debounced slug check and handleSave;       *)
(* App: handleCreateOrUpdate.                                              *)
(***************************************************************************)
\* the texts typed as title and as slug
Titles == {<<>>, <<"T">>}
Slugs == {<<>>, <<"t">>, <<"n">>, <<"u">>}

\* the slugs of the rows of travel_tours
UsedSlugs == {<<"t">>, <<"u">>}

\* the tour prop of TourEditor: null for a new tour
TourIsNull == editingTour \in {JNull, EmptyObj}
\* tour?.slug
TourSlug == IF TourIsNull THEN JUndef ELSE editingTour["slug"]

\* what the slug query for slug d answers: an error, or the rows found
CheckResults(d) ==
    { [error |-> <<"Failed to fetch">>, rows |-> 0],
      [error |-> <<>>, rows |-> IF d.t = "str" /\ d.v \in UsedSlugs THEN 1 ELSE 0] }

\* what the insert or update answers
SaveResults ==
    { [code |-> "", message |-> <<>>],
      [code |-> "42501", message |-> <<"new row violates row-level security policy">>],
      [code |-> "23505", message |-> <<"duplicate key value">>] }

SlugInUseMsg == <<"Slug is already in use">>
RequiredMsg == <<"Title and slug are required">>
FixSlugMsg == <<"Please fix slug errors">>
PermissionDeniedMsg == <<"Permission denied: Check Supabase RLS policies.">>
SaveErrorMsg(m) == <<"Error: ">> \o m
SavedMsg(isNew) == <<"Tour successfully ", IF isNew THEN "created" ELSE "updated", "!">>

\* TourEditor is unmounted: the setters of the calls it awaits do nothing
Unmount(reqs) == [i \in 1..Len(reqs) |-> [reqs[i] EXCEPT !.live = FALSE]]

\* a change of the title input
setTitle(v) ==
    /\ editingTour # JNull /\ activeTab = "basic"
    /\ formData' = [formData EXCEPT !["title"] = JStr(v)]
    /\ toasted' = <<>>
    /\ last' = Event("setTitle", "basic", NoResponse)
    /\ UNCHANGED <<activeTab, editorVars, inflight, hostVars>>

\* a change of the slug input; the timer of useDebounce is started anew
setSlug(v) ==
    /\ editingTour # JNull /\ activeTab = "basic"
    /\ formData' = [formData EXCEPT !["slug"] = JStr(v)]
    /\ toasted' = <<>>
    /\ last' = Event("setSlug", "basic", NoResponse)
    /\ UNCHANGED <<activeTab, editorVars, inflight, hostVars>>

\* the timer of useDebounce fires, 400 ms after the last change of the slug:
\* setDebouncedValue(value), and the effect on debouncedSlug runs checkSlug
\* up to its await
debounceTimeout ==
    /\ editingTour # JNull
    /\ formData["slug"] # debouncedSlug
    /\ debouncedSlug' = formData["slug"]
    /\ IF Falsy(formData["slug"])
       THEN UNCHANGED <<slugError, slugChecking, checks>>
       ELSE IF TourSlug = formData["slug"]
       THEN /\ slugError' = <<>>
            /\ UNCHANGED <<slugChecking, checks>>
       ELSE /\ Len(checks) < MaxChecks
            /\ slugChecking' = TRUE
            /\ checks' = Append(checks, formData["slug"])
            /\ UNCHANGED slugError
    /\ toasted' = <<>>
    /\ last' = Event("debounceTimeout", "", NoResponse)
    /\ UNCHANGED <<formData, activeTab, editorVars, inflight, isSaving, saves,
                   editingTour, fetchToursCalls, unusedReported, listVars>>

\* checkSlug from its await on, query i answering res
checkSlugResume(i, res) ==
    /\ checks' = RemoveAt(checks, i)
    /\ IF editingTour = JNull
       THEN UNCHANGED <<slugChecking, slugError>>
       ELSE /\ slugChecking' = FALSE
            /\ slugError' = (IF res.error # <<>> THEN slugError
                             ELSE IF res.rows > 0 THEN SlugInUseMsg
                             ELSE <<>>)
    /\ toasted' = (IF res.error # <<>> THEN <<Toast(res.error, "error")>> ELSE <<>>)
    /\ unusedReported' = (IF res.error = <<>> /\ res.rows = 0
                          THEN unusedReported \cup {checks[i]} ELSE unusedReported)
    /\ last' = Event("checkSlug", "", NoResponse)
    /\ UNCHANGED <<formData, activeTab, editorVars, inflight, isSaving, debouncedSlug,
                   saves, editingTour, fetchToursCalls, listVars>>

\* handleSave that does not look at slugError
handleSaveIgnoresSlugError(byButton) ==
    /\ editingTour # JNull
    /\ byButton => ~isSaving
    /\ IF Falsy(formData["title"]) \/ Falsy(formData["slug"])
       THEN /\ toasted' = <<Toast(RequiredMsg, "error")>>
            /\ MountTab("basic")
            /\ last' = Event("handleSave.required", "", NoResponse)
            /\ UNCHANGED <<isSaving, saves>>
       ELSE /\ Len(saves) < MaxSaves
            /\ isSaving' = TRUE
            /\ saves' = Append(saves, formData)
            /\ toasted' = <<>>
            /\ last' = Event("handleSave.await", "", NoResponse)
            /\ UNCHANGED <<activeTab, editorVars, inflight>>
    /\ UNCHANGED <<formData, slugChecking, slugError, debouncedSlug, checks,
                   editingTour, fetchToursCalls, unusedReported, listVars>>

\* handleSave up to its await: a click on Save (disabled while isSaving) or
\* Ctrl/Cmd+S (the keydown listener of the render on screen), with at most
\* cap requests in flight
handleSaveWithin(cap, byButton) ==
    /\ editingTour # JNull
    /\ byButton => ~isSaving
    /\ IF Falsy(formData["title"]) \/ Falsy(formData["slug"])
       THEN /\ toasted' = <<Toast(RequiredMsg, "error")>>
            /\ MountTab("basic")
            /\ last' = Event("handleSave.required", "", NoResponse)
            /\ UNCHANGED <<isSaving, saves>>
       ELSE IF slugError # <<>>
       THEN /\ toasted' = <<Toast(FixSlugMsg, "error")>>
            /\ MountTab("basic")
            /\ last' = Event("handleSave.slugError", "", NoResponse)
            /\ UNCHANGED <<isSaving, saves>>
       ELSE /\ Len(saves) < cap
            /\ isSaving' = TRUE
            /\ saves' = Append(saves, formData)
            /\ toasted' = <<>>
            /\ last' = Event("handleSave.await", "", NoResponse)
            /\ UNCHANGED <<activeTab, editorVars, inflight>>
    /\ UNCHANGED <<formData, slugChecking, slugError, debouncedSlug, checks,
                   editingTour, fetchToursCalls, unusedReported, listVars>>

handleSave(byButton) == handleSaveWithin(MaxSaves, byButton)

\* an error branch that also closes the editor
handleCreateOrUpdateErrorCloses(res) ==
    /\ toasted' = <<Toast(IF res.code = "42501" THEN PermissionDeniedMsg
                          ELSE SaveErrorMsg(res.message), "error")>>
    /\ editingTour' = JNull
    /\ inflight' = Unmount(inflight)
    /\ UNCHANGED fetchToursCalls

\* handleCreateOrUpdate, the request having answered the error res
handleCreateOrUpdateError(res) ==
    /\ toasted' = <<Toast(IF res.code = "42501" THEN PermissionDeniedMsg
                          ELSE SaveErrorMsg(res.message), "error")>>
    /\ UNCHANGED <<editingTour, inflight, fetchToursCalls>>

\* handleCreateOrUpdate, the request having succeeded: the toast,
\* setEditingTour(null) (TourEditor is unmounted) and fetchTours()
handleCreateOrUpdateOk(tourData) ==
    /\ toasted' = <<Toast(SavedMsg(Falsy(tourData["id"])), "success")>>
    /\ editingTour' = JNull
    /\ inflight' = Unmount(inflight)
    /\ fetchToursCalls' = fetchToursCalls + 1

\* handleCreateOrUpdate from its await on, request i answering res, and the
\* rest of handleSave: setIsSaving(false)
handleCreateOrUpdate(i, res) ==
    /\ saves' = RemoveAt(saves, i)
    /\ IF res.code # ""
       THEN /\ handleCreateOrUpdateError(res)
            /\ last' = Event("handleCreateOrUpdate.error", "", res)
       ELSE /\ handleCreateOrUpdateOk(saves[i])
            /\ last' = Event("handleCreateOrUpdate.ok", "", res)
    /\ isSaving' = (IF editingTour = JNull THEN isSaving ELSE FALSE)
    /\ UNCHANGED <<formData, activeTab, editorVars, slugChecking, slugError,
                   debouncedSlug, checks, unusedReported, listVars>>

\* Cancel, the back arrow or Escape: setEditingTour(null)
onCancel ==
    /\ editingTour # JNull
    /\ editingTour' = JNull
    /\ inflight' = Unmount(inflight)
    /\ toasted' = <<>>
    /\ last' = Event("onCancel", "", NoResponse)
    /\ UNCHANGED <<formData, activeTab, editorVars, isSaving, slugChecking, slugError,
                   debouncedSlug, checks, saves, fetchToursCalls, unusedReported, listVars>>

NextHost ==
    \/ \E tab \in VisitTabs : editingTour # JNull /\ setActiveTab(tab)
    \/ \E v \in Titles : setTitle(v)
    \/ \E v \in Slugs : setSlug(v)
    \/ debounceTimeout
    \/ \E i \in 1..Len(checks) : \E res \in CheckResults(checks[i]) : checkSlugResume(i, res)
    \/ \E byButton \in BOOLEAN : handleSave(byButton)
    \/ \E i \in 1..Len(saves) : \E res \in SaveResults : handleCreateOrUpdate(i, res)
    \/ onCancel

SpecHost == Init /\ [][NextHost]_vars

(***************************************************************************)
(* Sessions of the pricing editor in which the model answers a number.     *)
(***************************************************************************)
NextScalar ==
    \/ setActiveTab("pricing_data")
    \/ \E m \in {"preview", "raw"} : setMode(m)
    \/ rawOnChange(TextPartial)
    \/ handleRawBlur
    \/ setPrompt(<<"g", "o">>)
    \/ handleAIGenerate
    \/ \E i \in 1..Len(inflight) : \E resp \in ScalarResponses : handleAIGenerateResume(i, resp)

SpecScalar == Init /\ [][NextScalar]_vars

(***************************************************************************)
(* App: the list view, fetchTours, the delete modal and handleDelete.      *)
(***************************************************************************)
\* what a list action leaves alone: TourEditor is not mounted
editorSide ==
    <<formData, activeTab, editorVars, inflight, isSaving, slugChecking, slugError,
      debouncedSlug, checks, saves, editingTour, fetchToursCalls, unusedReported>>

\* the list view is rendered and the delete modal, which covers the page,
\* is closed
ListShown == editingTour = JNull /\ deleteId = 0

\* the errors a request to the datastore may answer (empty: none)
DatastoreErrors == {<<>>, <<"Failed to fetch">>}

\* fetchTours up to its await, called through the callback created by the
\* render whose query parameters are q
fetchTours(q, origin) ==
    /\ Len(fetches) < MaxFetches
    /\ loading' = TRUE
    /\ fetches' = Append(fetches, [q |-> q, origin |-> origin])

\* fetchTours from its await on, query i answering the error err or, with
\* none, the rows of its range
fetchToursResume(i, err) ==
    LET f == fetches[i]
        r == QueryAnswer[<<table, f.q>>]
    IN  /\ fetches' = RemoveAt(fetches, i)
        /\ IF err # <<>>
           THEN /\ appError' = err
                /\ toasted' = <<Toast(err, "error")>>
                /\ last' = Event(f.origin \o ".error", "", NoResponse)
                /\ UNCHANGED <<tours, totalCount>>
           ELSE /\ tours' = r.data
                /\ totalCount' = r.count
                /\ toasted' = <<>>
                /\ last' = Event(f.origin \o ".ok", "", NoResponse)
                /\ UNCHANGED appError
        /\ loading' = FALSE
        /\ UNCHANGED <<table, searchTerm, debouncedSearch, page, perPage, sortCol, sortAsc,
                       deleteId, deleteConfirmText, deletes, typedFor>>
        /\ UNCHANGED editorSide

\* a change of the search input
setSearchTerm(v) ==
    /\ ListShown
    /\ searchTerm' = v
    /\ toasted' = <<>>
    /\ last' = Event("setSearchTerm", "", NoResponse)
    /\ UNCHANGED <<table, tours, totalCount, loading, appError, debouncedSearch, page,
                   perPage, sortCol, sortAsc, deleteId, deleteConfirmText, fetches,
                   deletes, typedFor>>
    /\ UNCHANGED editorSide

\* the timer of useDebounce fires, 300 ms after the last change of the
\* search input: fetchTours is created anew and the effect on it runs it
searchDebounceTimeout ==
    /\ debouncedSearch # searchTerm
    /\ debouncedSearch' = searchTerm
    /\ fetchTours([QueryParams EXCEPT !.search = searchTerm], "fetchTours")
    /\ toasted' = <<>>
    /\ last' = Event("searchDebounceTimeout", "", NoResponse)
    /\ UNCHANGED <<table, tours, totalCount, appError, searchTerm, page, perPage, sortCol,
                   sortAsc, deleteId, deleteConfirmText, deletes, typedFor>>
    /\ UNCHANGED editorSide

\* a choice in the page-size select: setPerPage(n), setPage(1), and the
\* effect on fetchTours
setPerPage(n) ==
    /\ ListShown
    /\ n # perPage
    /\ perPage' = n
    /\ page' = 1
    /\ fetchTours([QueryParams EXCEPT !.perPage = n, !.page = 1], "fetchTours")
    /\ toasted' = <<>>
    /\ last' = Event("setPerPage", "", NoResponse)
    /\ UNCHANGED <<table, tours, totalCount, appError, searchTerm, debouncedSearch, sortCol,
                   sortAsc, deleteId, deleteConfirmText, deletes, typedFor>>
    /\ UNCHANGED editorSide

\* a click on Prev (disabled on page 1) or on Next (disabled on the last
\* page); the loading overlay covers both
setPage(d) ==
    /\ ListShown /\ ~loading
    /\ IF d = -1 THEN page # 1 ELSE page * perPage < totalCount
    /\ page' = page + d
    /\ fetchTours([QueryParams EXCEPT !.page = page + d], "fetchTours")
    /\ toasted' = <<>>
    /\ last' = Event("setPage", "", NoResponse)
    /\ UNCHANGED <<table, tours, totalCount, appError, searchTerm, debouncedSearch, perPage,
                   sortCol, sortAsc, deleteId, deleteConfirmText, deletes, typedFor>>
    /\ UNCHANGED editorSide

\* a click on a column header
handleSort(col) ==
    /\ ListShown
    /\ IF sortCol = col
       THEN sortAsc' = ~sortAsc /\ sortCol' = sortCol
       ELSE sortCol' = col /\ sortAsc' = TRUE
    /\ fetchTours([QueryParams EXCEPT !.sortCol = col,
                                      !.sortAsc = (IF sortCol = col THEN ~sortAsc ELSE TRUE)],
                  "fetchTours")
    /\ toasted' = <<>>
    /\ last' = Event("handleSort", "", NoResponse)
    /\ UNCHANGED <<table, tours, totalCount, appError, searchTerm, debouncedSearch, page,
                   perPage, deleteId, deleteConfirmText, deletes, typedFor>>
    /\ UNCHANGED editorSide

\* a click on the delete button of the row id (under the loading overlay
\* while loading): the modal opens
setDeleteId(id) ==
    /\ ListShown /\ ~loading
    /\ \E k \in 1..Len(tours) : tours[k] = id
    /\ deleteId' = id
    /\ typedFor' = 0
    /\ toasted' = <<>>
    /\ last' = Event("setDeleteId", "", NoResponse)
    /\ UNCHANGED <<table, tours, totalCount, loading, appError, searchTerm, debouncedSearch,
                   page, perPage, sortCol, sortAsc, deleteConfirmText, fetches, deletes>>
    /\ UNCHANGED editorSide

\* a change of the confirmation input of the modal
setDeleteConfirmText(v) ==
    /\ editingTour = JNull /\ deleteId # 0
    /\ deleteConfirmText' = v
    /\ typedFor' = (IF v = DELETE THEN deleteId ELSE 0)
    /\ toasted' = <<>>
    /\ last' = Event("setDeleteConfirmText", "", NoResponse)
    /\ UNCHANGED <<table, tours, totalCount, loading, appError, searchTerm, debouncedSearch,
                   page, perPage, sortCol, sortAsc, deleteId, fetches, deletes>>
    /\ UNCHANGED editorSide

\* the close icon of the modal (onClose, which also empties the text) or
\* its Cancel button (setDeleteId(null) alone)
closeModal(byIcon) ==
    /\ editingTour = JNull /\ deleteId # 0
    /\ deleteId' = 0
    /\ deleteConfirmText' = (IF byIcon THEN <<>> ELSE deleteConfirmText)
    /\ toasted' = <<>>
    /\ last' = Event(IF byIcon THEN "onClose" ELSE "modalCancel", "", NoResponse)
    /\ UNCHANGED <<table, tours, totalCount, loading, appError, searchTerm, debouncedSearch,
                   page, perPage, sortCol, sortAsc, fetches, deletes, typedFor>>
    /\ UNCHANGED editorSide

\* handleDelete up to its await: a click on the delete button of the modal,
\* disabled unless the text is DELETE
handleDelete ==
    /\ editingTour = JNull
    /\ deleteId # 0 /\ deleteConfirmText = DELETE
    /\ Len(deletes) < MaxDeletes
    /\ tours' = SelectSeq(tours, LAMBDA x : x # deleteId)
    /\ totalCount' = totalCount - 1
    /\ deleteId' = 0
    /\ deleteConfirmText' = <<>>
    /\ deletes' = Append(deletes, [targetId |-> deleteId, q |-> QueryParams])
    /\ toasted' = <<>>
    /\ last' = Event("handleDelete.await", "", NoResponse)
    /\ UNCHANGED <<table, loading, appError, searchTerm, debouncedSearch, page, perPage,
                   sortCol, sortAsc, fetches, typedFor>>
    /\ UNCHANGED editorSide

\* handleDelete from its await on, request i answering the error err (the
\* row is kept; fetchTours of the closure is called) or none (the row is
\* gone)
handleDeleteResume(i, err) ==
    LET d == deletes[i]
    IN  /\ deletes' = RemoveAt(deletes, i)
        /\ IF err # <<>>
           THEN /\ toasted' = <<Toast(err, "error")>>
                /\ fetchTours(d.q, "handleDelete.fetchTours")
                /\ last' = Event("handleDelete.error", "", NoResponse)
                /\ UNCHANGED table
           ELSE /\ toasted' = <<Toast(<<"Tour deleted successfully">>, "success")>>
                /\ table' = table \ {d.targetId}
                /\ last' = Event("handleDelete.ok", "", NoResponse)
                /\ UNCHANGED <<loading, fetches>>
        /\ UNCHANGED <<tours, totalCount, appError, searchTerm, debouncedSearch, page,
                       perPage, sortCol, sortAsc, deleteId, deleteConfirmText, typedFor>>
        /\ UNCHANGED editorSide

\* App at its mount: the list is empty and loading, the effect has called
\* fetchTours
InitList ==
    /\ formData = NewTourForm
    /\ activeTab = "basic"
    /\ mode = "preview"
    /\ rawText = <<>>
    /\ error = <<>>
    /\ prompt = <<>>
    /\ isProcessing = FALSE
    /\ inflight = <<>>
    /\ toasted = <<>>
    /\ last = Event("mount", "", NoResponse)
    /\ isSaving = FALSE
    /\ slugChecking = FALSE
    /\ slugError = <<>>
    /\ debouncedSlug = formData["slug"]
    /\ checks = <<>>
    /\ saves = <<>>
    /\ editingTour = JNull
    /\ fetchToursCalls = 0
    /\ unusedReported = {}
    /\ ListIdle
    /\ tours = <<>>
    /\ totalCount = 0
    /\ loading = TRUE
    /\ fetches = <<[q |-> FirstQuery, origin |-> "fetchTours"]>>

\* sessions of querying: search, page size, page and sort
NextList ==
    \/ \E i \in 1..Len(fetches) : \E err \in DatastoreErrors : fetchToursResume(i, err)
    \/ \E v \in SearchTerms : setSearchTerm(v)
    \/ searchDebounceTimeout
    \/ \E n \in PerPageChoices : setPerPage(n)
    \/ \E d \in {-1, 1} : setPage(d)
    \/ \E col \in SortCols : handleSort(col)

SpecList == InitList /\ [][NextList]_vars

\* sessions of deleting, on pages of either size
NextDelete ==
    \/ \E i \in 1..Len(fetches) : \E err \in DatastoreErrors : fetchToursResume(i, err)
    \/ \E n \in PerPageChoices : setPerPage(n)
    \/ \E d \in {-1, 1} : setPage(d)
    \/ \E id \in DeleteCandidates : setDeleteId(id)
    \/ \E v \in ConfirmTexts : setDeleteConfirmText(v)
    \/ \E byIcon \in BOOLEAN : closeModal(byIcon)
    \/ handleDelete
    \/ \E i \in 1..Len(deletes) : \E err \in DatastoreErrors : handleDeleteResume(i, err)

SpecDelete == InitList /\ [][NextDelete]_vars

(***************************************************************************)
(* Sessions of saving and record-level generation on the basic tab.        *)
(***************************************************************************)
NextSave ==
    \/ \E byButton \in BOOLEAN : handleSaveWithin(MaxRace, byButton)
    \/ \E i \in 1..Len(saves) : \E res \in SaveResults : handleCreateOrUpdate(i, res)
    \/ \E byButton \in BOOLEAN : handleMasterAIGenerate(<<"g", "o">>, byButton)
    \/ \E byButton \in BOOLEAN : handleAIGenerateBasicInfo(<<"g", "o">>, byButton)
    \/ \E i \in 1..Len(inflight) : \E resp \in HostResponses : handleHostGenerateResume(i, resp)
    \/ debounceTimeout
    \/ \E i \in 1..Len(checks) : \E res \in CheckResults(checks[i]) : checkSlugResume(i, res)
    \/ onCancel

SpecSave == Init /\ [][NextSave]_vars

(***************************************************************************)
(* Sessions over two field editors and the record-level generation.        *)
(***************************************************************************)
\* the tabs visited after the basic tab, on which a session starts
TabsVisited == {"pricing_data", "content_data"}

NextTabs ==
    \/ \E tab \in TabsVisited : setActiveTab(tab)
    \/ setMode("raw")
    \/ rawOnChange(TextVat)
    \/ handleRawBlur
    \/ setPrompt(<<"g", "o">>)
    \/ handleAIGenerate
    \/ \E i \in 1..Len(inflight) : handleAIGenerateResume(i, HttpOk(TextPrice150))
    \/ handleMasterAIGenerate(<<"g", "o">>, TRUE)
    \/ \E i \in 1..Len(inflight) :
          handleHostGenerateResume(i, HttpOk(JSONstringify(MasterData)))

SpecTabs == Init /\ [][NextTabs]_vars

(***************************************************************************)
(* Sessions in which generation requests of one field race: the editor is  *)
(* keyed by the tab, so leaving the tab and coming back mounts a new       *)
(* editor, which is not processing, while the old request is awaited.      *)
(***************************************************************************)
NextRace ==
    \/ \E tab \in VisitTabs : setActiveTab(tab)
    \/ \E m \in {"preview", "raw"} : setMode(m)
    \/ setPrompt(<<"g", "o">>)
    \/ handleAIGenerateWithin(MaxRace)
    \/ \E i \in 1..Len(inflight) : \E resp \in {HttpOk(TextPrice150), HttpOk(TextNull)} :
          handleAIGenerateResume(i, resp)

SpecRace == Init /\ [][NextRace]_vars

(***************************************************************************)
(* The claims.                                                             *)
(***************************************************************************)
ErrorToasts(ts) == {k \in 1..Len(ts) : ts[k].type = "error"}
SuccessToasts(ts) == {k \in 1..Len(ts) : ts[k].type = "success"}

\* C1: when the fetch of a field editor's generation is answered with a
\* non-2xx status, the step that resumes handleAIGenerate leaves the whole
\* form (so the field's Document) as it was and gives addToast exactly one
\* toast, of type error.
C1_Non2xxLeavesDocument ==
    [][(last'.op = "handleAIGenerate.catch" /\ CauseOf[last'.resp] = "status")
        => /\ formData' = formData
           /\ Len(toasted') = 1
           /\ Cardinality(ErrorToasts(toasted')) = 1]_vars

\* a generation of the pricing editor was answered 401 while the field held
\* {"base_price":100}
C1_Witness ==
    /\ last.op = "handleAIGenerate.catch"
    /\ last.resp = HttpError("Unauthorized")
    /\ formData["pricing_data"] = Price100

C3_FieldsAreJSON == \A f \in JSONB_FIELDS : IsJSON(formData[f])

\* a malformed response arrived while the raw textarea held text that does
\* not parse, after a raw edit had been committed
C3_Witness ==
    /\ last.op = "handleAIGenerate.catch"
    /\ last.resp = HttpOk(TextProse)
    /\ mode = "raw"
    /\ rawText = TextPartial
    /\ error # <<>>
    /\ formData["pricing_data"] = JSONparse(TextVat).val

\* C4: when a generation of a field editor succeeds, the step that resumes
\* handleAIGenerate makes the field's Document exactly the value
\* callOpenRouter returned (nothing of the previous Document is kept) and
\* gives addToast exactly one toast, of type success; a Document
\* {"base_price":100} answered {"base_price":150} becomes {"base_price":150}.
C4_SuccessReplacesDocument ==
    [][(last'.op = "handleAIGenerate.try")
        => /\ formData'[last'.tab] = CallResult[last'.resp].val
           /\ Len(toasted') = 1
           /\ Cardinality(SuccessToasts(toasted')) = 1
           /\ (formData[last'.tab] = Price100 /\ last'.resp = HttpOk(TextPrice150))
                  => formData'[last'.tab] = Price150]_vars

\* the pricing editor's generation was answered {"base_price":150}
C4_Witness ==
    /\ last.op = "handleAIGenerate.try"
    /\ last.resp = HttpOk(TextPrice150)
    /\ formData["pricing_data"] = Price150
    /\ toasted = <<Toast(<<"Update successful">>, "success")>>

\* C5: a blur of the raw textarea replaces the Document with the parsed
\* value when the raw text parses; when it does not, the form is unchanged,
\* the parser's message becomes the inline error, no toast is emitted and
\* the raw textarea stays on screen with its text (typing goes on).
C5_BlurCommitsOnlyParsedText ==
    [][(last'.op \in {"handleRawBlur.try", "handleRawBlur.catch"})
        => LET r == JSONparse(rawText)
           IN  IF r.ok
               THEN /\ last'.op = "handleRawBlur.try"
                    /\ formData' = [formData EXCEPT ![activeTab] = r.val]
               ELSE /\ last'.op = "handleRawBlur.catch"
                    /\ formData' = formData
                    /\ error' = r.val.v
                    /\ toasted' = <<>>
                    /\ rawText' = rawText
                    /\ mode' = "raw" /\ activeTab' \in JSONB_FIELDS]_vars

\* the raw textarea lost the focus while it held a text cut off in the
\* middle, the field holding {"base_price":100}
C5_Witness ==
    /\ last.op = "handleRawBlur.catch"
    /\ rawText = TextPartial
    /\ error = SyntaxErrorMsg
    /\ formData["pricing_data"] = Price100

\* C6: a change of the raw textarea leaves the form as it was; it sets the
\* raw text, and the inline error is empty exactly when the new text parses
\* and is the parser's message otherwise.
C6_KeystrokeLeavesDocument ==
    [][(last'.op = "rawOnChange")
        => /\ formData' = formData
           /\ rawText' \in TypedTexts
           /\ (error' = <<>>) <=> ParseTyped[rawText'].ok
           /\ ~ParseTyped[rawText'].ok => error' = SyntaxErrorMsg]_vars

\* {"vat":true} was typed over a field that holds {"base_price":100}: the
\* text parses, the error is empty and the field is not changed
C6_Witness ==
    /\ last.op = "rawOnChange"
    /\ rawText = TextVat
    /\ error = <<>>
    /\ formData["pricing_data"] = Price100

\* C7: with a text that does not parse left in the raw buffer and the
\* editor switched to preview, the switch back to raw makes the raw buffer
\* the pretty-printed serialization of the Document, with an empty inline
\* error and the form unchanged.
C7_ReentryReproducesDocument ==
    [][(mode = "preview" /\ rawText = TextPartial /\ error # <<>> /\ mode' = "raw")
        => /\ rawText' = JSONstringifyPretty(formData[activeTab])
           /\ error' = <<>>
           /\ formData' = formData]_vars

\* C8: the raw text produced when raw mode is entered parses, and parses to
\* the Document.
C8_SerializeParseIdentity ==
    [][(mode # "raw" /\ mode' = "raw")
        => /\ JSONparse(rawText').ok
           /\ JSONparse(rawText').val = formData'[activeTab']]_vars

\* C9: when the response is a payload wrapped in a fenced block, with the
\* json tag or with no tag, callOpenRouter gives its caller what JSON.parse
\* gives on the payload.
C9_FencedEqualsDirect ==
    \A fc \in FenceCases :
        (last.op \in {"handleAIGenerate.try", "handleAIGenerate.catch"}
         /\ last.resp = HttpOk(fc.content))
            => CallResult[last.resp] = JSONparse(fc.payload)

\* C10 as stated: the Error of a call whose response does not parse differs
\* from the Error of every call whose fetch failed or was answered non-2xx.
C10_ParseFailureDistinguishable ==
    (last.op = "handleAIGenerate.catch" /\ CauseOf[last.resp] = "parse")
        => \A r \in Responses :
               CauseOf[r] \in {"network", "status"} => CallResult[r] # CallResult[last.resp]

\* C10: the Error of a call whose response does not parse is the Error of a
\* call whose fetch failed or was answered non-2xx: the same message, which
\* is the whole of what the caller shows.
C10_FailuresCollapsed ==
    (last.op = "handleAIGenerate.catch" /\ CauseOf[last.resp] = "parse")
        => /\ toasted = <<Toast(CallResult[last.resp].val.v, "error")>>
           /\ \A r \in Responses :
                  CauseOf[r] \in {"network", "status"} => CallResult[r] = CallResult[last.resp]

\* the model answered in prose and the generic message was shown
C10_Witness ==
    /\ last.op = "handleAIGenerate.catch"
    /\ last.resp = HttpOk(TextProse)
    /\ toasted = <<Toast(GenericAIErrorMsg, "error")>>

\* the text s occurs in the message m
Carries(m, s) == \E k \in 1..Len(m) : m[k] = s

\* C11: when the response is non-2xx, the Error callOpenRouter throws to its
\* caller, and the message of the toast, carry the response's status text.
C11_StatusTextSurfaced ==
    (last.op = "handleAIGenerate.catch" /\ CauseOf[last.resp] = "status")
        => /\ Carries(CallResult[last.resp].val.v, last.resp.statusText)
           /\ \E k \in ErrorToasts(toasted) : Carries(toasted[k].message, last.resp.statusText)

\* C12: the Document of a JSON field changes only in a step of that field's
\* own editor: the success of a generation issued from it, or the commit of
\* a raw text that parsed.
C12_OnlyOwnEditorWrites ==
    [][\A f \in JSONB_FIELDS :
          formData'[f] # formData[f]
              => /\ last'.tab = f
                 /\ last'.op \in {"handleAIGenerate.try", "handleRawBlur.try"}]_vars

\* two requests of one field are awaited
RacingRequests ==
    \E i, j \in 1..Len(inflight) :
        i < j /\ inflight[i].kind = "field" /\ inflight[i].tab = inflight[j].tab

\* C13: a second request of a field can be awaited together with the first
\* (the witness), and a successful answer always replaces the field's
\* Document by its value: when it arrives while another request of the
\* field is still awaited, and when it arrives right after the answer to
\* another request of the field was applied (it completes last and wins,
\* whichever of the two was issued first).
C13_LastCompletionWins ==
    [][(/\ last'.op = "handleAIGenerate.try"
        /\ \/ RacingRequests
           \/ last.op = "handleAIGenerate.try" /\ last.tab = last'.tab)
        => formData'[last'.tab] = CallResult[last'.resp].val]_vars

\* two requests of the pricing field are awaited: the older from an editor
\* that was unmounted, the newer from the editor on screen
C13_Witness ==
    /\ Len(inflight) = 2
    /\ inflight[1].tab = "pricing_data" /\ inflight[2].tab = "pricing_data"
    /\ ~inflight[1].live /\ inflight[2].live
    /\ isProcessing

\* C14: an invocation of handleAIGenerate with a non-blank prompt adds
\* exactly one awaited request; one with a blank prompt adds none and leaves
\* the state of the editor and of the form as it was; an answer, failed or
\* not, ends its request and no request is sent again; no other step adds a
\* request.
C14_OneRequestPerInvocation ==
    [][/\ last'.op = "handleAIGenerate.await" => Len(inflight') = Len(inflight) + 1
       /\ last'.op = "handleAIGenerate.blank"
              => /\ Trim(prompt) = <<>>
                 /\ UNCHANGED <<formData, activeTab, editorVars, inflight, hostVars>>
       /\ last'.op \in {"handleAIGenerate.try", "handleAIGenerate.catch"}
              => Len(inflight') = Len(inflight) - 1
       /\ last'.op # "handleAIGenerate.await" => Len(inflight') <= Len(inflight)]_vars

\* the fetch of a generation failed and nothing is awaited any more
C14_Witness ==
    /\ last.op = "handleAIGenerate.catch"
    /\ last.resp = NetworkFailure
    /\ inflight = <<>>
    /\ ~isProcessing

\* C15: every step that changes a field's Document by a generation or by a
\* raw commit, and every failed generation, gives addToast a toast.
C15_EveryOutcomeToasts ==
    [][(\/ last'.op = "handleAIGenerate.catch"
        \/ /\ last'.op \in {"handleAIGenerate.try", "handleRawBlur.try"}
           /\ formData' # formData)
        => toasted' # <<>>]_vars

\* the values whose renderings are compared
EmptyKinds == {EmptyArr, JNull, EmptyObj}

\* C16: in preview mode, an empty array, null and an empty object are shown
\* differently, as values nested in a Document and as the whole Document of
\* the field on screen.
C16_DistinctMarkers ==
    (Mounted /\ mode = "preview")
        => \A x, y \in EmptyKinds :
               x # y =>
                   /\ Preview([formData EXCEPT ![activeTab] = JObj(<<Member(<<"k">>, x)>>)], activeTab)
                        # Preview([formData EXCEPT ![activeTab] = JObj(<<Member(<<"k">>, y)>>)], activeTab)
                   /\ formData[activeTab] = x
                        => Preview(formData, activeTab)
                             # Preview([formData EXCEPT ![activeTab] = y], activeTab)

\* C19: a switch of mode, and a blur of the raw textarea whose text is the
\* one the editor itself wrote on entering raw mode (never edited), leave
\* the field's Document as it was.
C19_ModeSwitchKeepsDocument ==
    [][(\/ last'.op = "setMode"
        \/ /\ last'.op \in {"handleRawBlur.try", "handleRawBlur.catch"}
           /\ rawText = EffectText(formData, activeTab))
        => formData'[activeTab] = formData[activeTab]]_vars

\* C17: no save request awaited carries an empty title or slug, and a
\* handleSave that finds the title or the slug empty, or a slug error set,
\* sends no request: it gives addToast one error toast, makes 'basic' the
\* active tab and leaves the form and the saving flag as they were.
C17_InvalidFormIsNotSaved ==
    [][/\ \A i \in 1..Len(saves') :
             ~Falsy(saves'[i]["title"]) /\ ~Falsy(saves'[i]["slug"])
       /\ (/\ last'.op \in {"handleSave.required", "handleSave.slugError", "handleSave.await"}
           /\ \/ Falsy(formData["title"]) \/ Falsy(formData["slug"])
              \/ slugError # <<>>)
              => /\ saves' = saves
                 /\ Len(toasted') = 1 /\ Cardinality(ErrorToasts(toasted')) = 1
                 /\ activeTab' = "basic"
                 /\ formData' = formData
                 /\ isSaving' = isSaving]_vars

\* handleSave found the slug error set, with a title and a slug typed
C17_Witness ==
    /\ last.op = "handleSave.slugError"
    /\ slugError = SlugInUseMsg
    /\ ~Falsy(formData["title"]) /\ ~Falsy(formData["slug"])
    /\ activeTab = "basic"
    /\ saves = <<>>
    /\ ~isSaving

\* C18: a save request whose slug is not the slug of the tour opened is sent
\* only when a slug query for that slug has answered that it is unused.
C18_SlugCheckedBeforeSave ==
    [][(last'.op = "handleSave.await" /\ formData["slug"] # TourSlug)
        => formData["slug"] \in unusedReported]_vars

\* C20: when the create or update request answers an error, the editor and
\* its form stay as they are, fetchTours is not called and addToast is given
\* exactly one toast, of type error, whose text is the permission-denied
\* message exactly when the code is 42501 and carries the error's message
\* otherwise; when it succeeds, the editor is closed, addToast is given one
\* success toast and fetchTours is called once.
C20_SaveOutcome ==
    [][/\ last'.op = "handleCreateOrUpdate.error"
            => /\ editingTour' = editingTour
               /\ formData' = formData
               /\ fetchToursCalls' = fetchToursCalls
               /\ Len(toasted') = 1 /\ Cardinality(ErrorToasts(toasted')) = 1
               /\ (toasted'[1].message = PermissionDeniedMsg) <=> (last'.resp.code = "42501")
               /\ last'.resp.code # "42501"
                      => toasted'[1].message = <<"Error: ">> \o last'.resp.message
       /\ last'.op = "handleCreateOrUpdate.ok"
            => /\ editingTour' = JNull
               /\ Len(toasted') = 1 /\ Cardinality(SuccessToasts(toasted')) = 1
               /\ fetchToursCalls' = fetchToursCalls + 1]_vars

\* the update of the tour opened was refused for a duplicate key: the editor
\* is still open, on its form, and not saving
C20_Witness ==
    /\ last.op = "handleCreateOrUpdate.error"
    /\ last.resp.code = "23505"
    /\ editingTour = ExistingTour
    /\ formData["slug"] = JStr(<<"u">>)
    /\ fetchToursCalls = 0
    /\ ~isSaving

\* C22: the step that applies a generation result or a raw commit to a JSON
\* field leaves every other key of the form as it was just before the step.
C22_OtherFieldsKept ==
    [][last'.op \in {"handleAIGenerate.try", "handleRawBlur.try"}
        => \A k \in FormKeys \ {last'.tab} : formData'[k] = formData[k]]_vars

\* C24: once no slug query is awaited, the slug error is that of the current
\* debounced slug; here, for the slug of the tour opened, which checkSlug
\* accepts without a query: no error.
C24_ErrorOfCurrentSlug ==
    (/\ editingTour # JNull
     /\ checks = <<>>
     /\ ~Falsy(debouncedSlug)
     /\ debouncedSlug = TourSlug)
        => slugError = <<>>

\* the editor on screen awaits a generation
LiveAwaited == \E i \in 1..Len(inflight) : inflight[i].kind = "field" /\ inflight[i].live

\* C28: the processing flag of the editor on screen is set exactly while a
\* generation it issued is awaited; the step that completes that generation,
\* however the call ended, resets the flag, empties the prompt when the call
\* succeeded and leaves the (non-blank) prompt as it was when it failed.
C28_ProcessingFlagReset ==
    [][/\ isProcessing' = LiveAwaited'
       /\ (/\ last'.op \in {"handleAIGenerate.try", "handleAIGenerate.catch"}
           /\ LiveAwaited /\ ~LiveAwaited')
            => /\ ~isProcessing'
               /\ last'.op = "handleAIGenerate.try" => prompt' = <<>>
               /\ last'.op = "handleAIGenerate.catch"
                    => prompt' = prompt /\ Trim(prompt') # <<>>]_vars

\* a generation of the editor on screen ended on a response that does not
\* parse: the flag is reset and the prompt is still there
C28_Witness ==
    /\ last.op = "handleAIGenerate.catch"
    /\ CauseOf[last.resp] = "parse"
    /\ Mounted /\ activeTab = last.tab
    /\ ~isProcessing
    /\ Trim(prompt) # <<>>

\* C29: in raw mode the inline error is non-empty exactly when the raw text
\* buffer does not parse as JSON.
C29_ErrorIffUnparsable ==
    (Mounted /\ mode = "raw") => ((error # <<>>) <=> ~JSONparse(rawText).ok)

\* C26: while the editor is open at most one save request is awaited, and
\* the saving flag is set whenever one is.
C26_OneSaveAtATime ==
    editingTour # JNull => (Len(saves) <= 1 /\ (saves # <<>> => isSaving))

\* the id of the tour opened: none for a new tour
TourId == IF TourIsNull THEN JUndef ELSE editingTour["id"]

\* C27: every save request of the editor carries the id of the tour opened
\* (none for a new tour, which is then inserted), whatever the record-level
\* generations before it answered.
C27_SaveKeepsId ==
    editingTour # JNull => \A i \in 1..Len(saves) : saves[i]["id"] = TourId

\* what the datastore holds for the query of the render on screen
CurrentAnswer == QueryAnswer[<<table, QueryParams>>]

\* C21: when the refetch that a failed delete issued has answered, and no
\* other query is awaited, the list and the count are those of the datastore
\* for the current query.
C21_RevertRestoresList ==
    [][(last'.op = "handleDelete.fetchTours.ok" /\ fetches' = <<>>)
        => tours' = CurrentAnswer'.data /\ totalCount' = CurrentAnswer'.count]_vars

\* C23: the loading flag is set while a query is awaited, and once every
\* query has answered (none with an error) the list and the count are those
\* of the query parameters on screen.
C23_LatestQueryShown ==
    /\ fetches # <<>> => loading
    /\ (fetches = <<>> /\ appError = <<>>)
          => tours = CurrentAnswer.data /\ totalCount = CurrentAnswer.count

\* C25: a delete request is sent only for a tour for which DELETE was typed
\* since the modal was opened for it.
C25_DeleteNeedsTyping ==
    [][last'.op = "handleDelete.await" => typedFor = deleteId]_vars

\* C30: the page is at least 1, the count is never negative and, when no
\* query is awaited and the count is positive, the page starts inside the
\* result range.
C30_PageInRange ==
    /\ page >= 1
    /\ totalCount >= 0
    /\ (fetches = <<>> /\ totalCount > 0) => (page - 1) * perPage < totalCount

=============================================================================
